---- MODULE Spec2Model ----
(***************************************************************************)
(* LockFreeDeque<T> of lock_free_deque.rs: a fixed-capacity ring buffer    *)
(* with two atomic counters, head and tail, claimed by compare-and-swap.   *)
(*                                                                         *)
(* Every atomic load, every compare_exchange_weak and every access to a    *)
(* slot of the UnsafeCell buffer is one step of the calling thread, so the *)
(* model has every interleaving of the calls.  Atomics are sequentially    *)
(* consistent in the model.  Option::take() is a read of the slot followed *)
(* by a write of None (mem::replace on a cell nothing protects), so it is  *)
(* two steps.  `tail - head` on usize panics in a build with overflow      *)
(* checks and wraps in a build without: both outcomes are in the model.    *)
(***************************************************************************)
EXTENDS Integers, Sequences, FiniteSets

\* Bounds of the model: the largest capacity, the number of values handed to
\* push_back calls (in Spec, in FullSpec and in SeqSpec), and the number of
\* values each consumer loop collects.
MaxCap == 2
MaxPush == 3
MaxFullPush == 2
MaxSeqPush == 6
PerConsumer == 2

\* tests::test_stress_concurrent_access: let num_threads = 2
NumThreads == 2
\* Width of usize in the model (Rust guarantees at least 16 bits).
UsizeBits == 16

Threads == 1..NumThreads
\* the tests' threads: num_threads / 2 producers, the others consumers
Producers == 1..(NumThreads \div 2)
Consumers == Threads \ Producers
\* the items a producer/consumer workload moves in total
TotalItems == PerConsumer * Cardinality(Consumers)
Max(a, b) == IF a > b THEN a ELSE b
Values == 1..Max(MaxSeqPush, Max(MaxPush, TotalItems))

VARIABLES
    capacity,     \* LockFreeDeque.capacity
    buffer,       \* LockFreeDeque.buffer: slot -> Option<T>
    head,         \* LockFreeDeque.head
    tail,         \* LockFreeDeque.tail
    frame,        \* per thread: its call (pc, op, the locals value, head, tail) and its last result
    issued,       \* number of values handed to push_back calls so far
    received,     \* per thread: number of values its consumer loop has collected
    pushed,       \* history: pushed[i+1] is the value whose push_back won tail index i
    popRet,       \* history: popRet[i+1] is what the pop_front that won head index i returned
    okAt,         \* history: okAt[v] is `issued` when push_back(v) returned Ok, 0 before
    quiet,        \* history: per thread, its pop_front began with head = tail and no push_back in progress, and none began since
    q             \* the abstract bounded FIFO, stepped when a call returns

shared == <<capacity, buffer, head, tail>>
harness == <<issued, received>>
vars == <<capacity, buffer, head, tail, frame, issued, received,
          pushed, popRet, okAt, quiet, q>>

\* no index claimed, no value
NoIndex == -1
NoValue == 0

\* Option<T>
None == [kind |-> "None"]
Some(v) == [kind |-> "Some", val |-> v]
\* Result<(), T>
Ok == [kind |-> "Ok"]
\* a faulty full signal: a default value instead of the caller's
ErrDefault(v) == [kind |-> "Err", val |-> NoValue]
Err(v) == [kind |-> "Err", val |-> v]
\* usize and bool results of len / is_empty / is_full
Usize(n) == [kind |-> "usize", val |-> n]
Bool(b) == [kind |-> "bool", val |-> b]
\* no result yet; a pop_front that won its index and has not returned
NoRet == [kind |-> "NoRet"]
Pending == [kind |-> "Pending"]

UsizeModulus == 2 ^ UsizeBits
\* usize subtraction in a build without overflow checks
WrappingSub(a, b) == (a - b + UsizeModulus) % UsizeModulus
\* usize::saturating_sub
SaturatingSub(a, b) == IF a >= b THEN a - b ELSE 0

\* a faulty full check, > for >=
IsFullCheckOffByOne(t, h) == WrappingSub(t, h) > capacity
\* the full check of push_back and is_full on the values read: tail - head >= self.capacity
IsFullCheck(t, h) == WrappingSub(t, h) >= capacity
\* a faulty empty check, > for >=
IsEmptyCheckStrict(h, t) == h > t
\* the empty check of pop_front and is_empty on the values read: head >= tail
IsEmptyCheck(h, t) == h >= t
\* the slot of a logical index: index % self.capacity
SlotOf(i) == i % capacity
\* the slot push_back writes
PushSlot(f) == SlotOf(f.tail)
\* a faulty slot choice: the slot after the one pop_front claimed
PopSlotNext(f) == SlotOf(f.head + 1)
\* the slot pop_front takes
PopSlot(f) == SlotOf(f.head)
\* a faulty CAS: it stores without comparing
CasBlind(atomic, current, spurious) == ~spurious
\* compare_exchange_weak(current, current + 1): succeeds only on a match, and not always
CasSucceeds(atomic, current, spurious) == atomic = current /\ ~spurious

----------------------------------------------------------------------------
\* A thread outside any call.
IdleFrame ==
    [pc |-> "idle", op |-> "none", value |-> NoValue, head |-> 0, tail |-> 0,
     taken |-> None, claimed |-> NoIndex, ret |-> NoRet]

\* with_capacity(capacity)
with_capacity(c) ==
    /\ capacity = c
    /\ buffer = [i \in 0..(c - 1) |-> None]
    /\ head = 0
    /\ tail = 0

InitRest ==
    /\ frame = [t \in Threads |-> IdleFrame]
    /\ issued = 0
    /\ received = [t \in Threads |-> 0]
    /\ pushed = <<>>
    /\ popRet = <<>>
    /\ okAt = [v \in Values |-> 0]
    /\ quiet = [t \in Threads |-> FALSE]
    /\ q = <<>>

Init == (\E c \in 0..MaxCap : with_capacity(c)) /\ InitRest

----------------------------------------------------------------------------
Idle(t) == frame[t].pc \in {"idle", "returned"}
InPush(t) == frame[t].op = "push_back" /\ ~Idle(t) /\ frame[t].pc # "panicked"
InPop(t) == frame[t].op = "pop_front" /\ ~Idle(t) /\ frame[t].pc # "panicked"

\* The abstract bounded FIFO of the given capacity: the result of an
\* operation on queue s, and the queue after it.
AbsRet(s, o, v) ==
    CASE o = "push_back" -> IF Len(s) < capacity THEN Ok ELSE Err(v)
      [] o = "pop_front" -> IF Len(s) > 0 THEN Some(Head(s)) ELSE None
      [] o = "len" -> Usize(Len(s))
      [] o = "is_empty" -> Bool(Len(s) = 0)
      [] o = "is_full" -> Bool(Len(s) = capacity)

AbsNext(s, o, v) ==
    CASE o = "push_back" -> IF Len(s) < capacity THEN Append(s, v) ELSE s
      [] o = "pop_front" -> IF Len(s) > 0 THEN Tail(s) ELSE s
      [] OTHER -> s

\* A step of thread t inside its call: its frame becomes f.
Goto(t, f) ==
    /\ frame' = [frame EXCEPT ![t] = f]
    /\ UNCHANGED <<popRet, okAt, q>>

\* The thread panics: its call never returns.
Panic(t) == Goto(t, [frame[t] EXCEPT !.pc = "panicked"])

\* The call of thread t returns r; its locals are gone.
Return(t, r) ==
    /\ frame' = [frame EXCEPT ![t] =
                    [IdleFrame EXCEPT !.pc = "returned", !.op = frame[t].op, !.ret = r]]
    /\ q' = AbsNext(q, frame[t].op, frame[t].value)
    /\ okAt' = IF r = Ok THEN [okAt EXCEPT ![frame[t].value] = issued] ELSE okAt
    /\ popRet' = IF frame[t].claimed # NoIndex /\ frame[t].op = "pop_front"
                 THEN [popRet EXCEPT ![frame[t].claimed + 1] = r]
                 ELSE popRet

\* Thread t calls method o (with value v, for push_back).
Call(t, o, v) ==
    /\ frame' = [frame EXCEPT ![t] = [IdleFrame EXCEPT !.pc = o, !.op = o, !.value = v]]
    /\ quiet' = IF o = "push_back"
                THEN [u \in Threads |-> FALSE]
                ELSE [quiet EXCEPT ![t] = /\ o = "pop_front"
                                          /\ head = tail
                                          /\ \A u \in Threads : ~InPush(u)]
    /\ UNCHANGED <<shared, pushed, popRet, okAt, q>>

----------------------------------------------------------------------------
\* push_back, line 30: let tail = self.tail.load(Relaxed)
PushLoadTail(t) ==
    /\ frame[t].pc = "push_back"
    /\ Goto(t, [frame[t] EXCEPT !.pc = "push_head", !.tail = tail])
    /\ UNCHANGED <<shared, harness, pushed, quiet>>

\* push_back, lines 31-36: let head = self.head.load(Acquire); the full check.
\* `tail - head` with head > tail panics with overflow checks and wraps without.
PushLoadHead(t) ==
    /\ frame[t].pc = "push_head"
    /\ \E overflow_checks \in BOOLEAN :
          IF head > frame[t].tail /\ overflow_checks
          THEN Panic(t)
          ELSE IF IsFullCheck(frame[t].tail, head)
               THEN Return(t, Err(frame[t].value))
               ELSE Goto(t, [frame[t] EXCEPT !.pc = "push_cas", !.head = head])
    /\ UNCHANGED <<shared, harness, pushed, quiet>>

\* push_back, lines 39-44: self.tail.compare_exchange_weak(tail, tail + 1, ..),
\* which may also fail spuriously; on failure the loop starts again.
PushCas(t) ==
    /\ frame[t].pc = "push_cas"
    /\ \E spurious \in BOOLEAN :
          IF CasSucceeds(tail, frame[t].tail, spurious)
          THEN /\ tail' = frame[t].tail + 1
               /\ pushed' = Append(pushed, frame[t].value)
               /\ Goto(t, [frame[t] EXCEPT !.pc = "push_write", !.claimed = frame[t].tail])
          ELSE /\ Goto(t, [frame[t] EXCEPT !.pc = "push_back"])
               /\ UNCHANGED <<tail, pushed>>
    /\ UNCHANGED <<capacity, buffer, head, harness, quiet>>

\* push_back, lines 46-49: *self.buffer[tail % self.capacity].get() = Some(value);
\* return Ok(())
PushWrite(t) ==
    /\ frame[t].pc = "push_write"
    /\ IF capacity = 0
       THEN Panic(t) /\ UNCHANGED buffer
       ELSE /\ buffer' = [buffer EXCEPT ![PushSlot(frame[t])] = Some(frame[t].value)]
            /\ Return(t, Ok)
    /\ UNCHANGED <<capacity, head, tail, harness, pushed, quiet>>

----------------------------------------------------------------------------
\* pop_front, line 57: let head = self.head.load(Relaxed)
PopLoadHead(t) ==
    /\ frame[t].pc = "pop_front"
    /\ Goto(t, [frame[t] EXCEPT !.pc = "pop_tail", !.head = head])
    /\ UNCHANGED <<shared, harness, pushed, quiet>>

\* pop_front, lines 58-63: let tail = self.tail.load(Acquire); the empty check
PopLoadTail(t) ==
    /\ frame[t].pc = "pop_tail"
    /\ IF IsEmptyCheck(frame[t].head, tail)
       THEN Return(t, None)
       ELSE Goto(t, [frame[t] EXCEPT !.pc = "pop_cas", !.tail = tail])
    /\ UNCHANGED <<shared, harness, pushed, quiet>>

\* pop_front, lines 66-71: self.head.compare_exchange_weak(head, head + 1, ..)
PopCas(t) ==
    /\ frame[t].pc = "pop_cas"
    /\ \E spurious \in BOOLEAN :
          IF CasSucceeds(head, frame[t].head, spurious)
          THEN /\ head' = frame[t].head + 1
               /\ frame' = [frame EXCEPT ![t] =
                               [@ EXCEPT !.pc = "pop_take", !.claimed = frame[t].head]]
               /\ popRet' = Append(popRet, Pending)
               /\ UNCHANGED <<okAt, q>>
          ELSE /\ Goto(t, [frame[t] EXCEPT !.pc = "pop_front"])
               /\ UNCHANGED head
    /\ UNCHANGED <<capacity, buffer, tail, harness, pushed, quiet>>

\* pop_front, line 74: take() reads the slot ...
PopTake(t) ==
    /\ frame[t].pc = "pop_take"
    /\ IF capacity = 0
       THEN Panic(t)
       ELSE Goto(t, [frame[t] EXCEPT !.pc = "pop_clear",
                                     !.taken = buffer[PopSlot(frame[t])]])
    /\ UNCHANGED <<shared, harness, pushed, quiet>>

\* ... and leaves None in it; line 76: return value
PopClear(t) ==
    /\ frame[t].pc = "pop_clear"
    /\ buffer' = [buffer EXCEPT ![PopSlot(frame[t])] = None]
    /\ Return(t, frame[t].taken)
    /\ UNCHANGED <<capacity, head, tail, harness, pushed, quiet>>

----------------------------------------------------------------------------
\* len / is_empty / is_full, lines 83, 89, 95: let head = self.head.load(Relaxed)
ObserverLoadHead(t, o) ==
    /\ frame[t].pc = o
    /\ Goto(t, [frame[t] EXCEPT !.pc = "load_tail", !.head = head])
    /\ UNCHANGED <<shared, harness, pushed, quiet>>

LenLoadHead(t) == ObserverLoadHead(t, "len")
IsEmptyLoadHead(t) == ObserverLoadHead(t, "is_empty")
IsFullLoadHead(t) == ObserverLoadHead(t, "is_full")

\* len, lines 84-85: let tail = self.tail.load(Relaxed); tail.saturating_sub(head)
LenLoadTail(t) ==
    /\ frame[t].pc = "load_tail" /\ frame[t].op = "len"
    /\ Return(t, Usize(SaturatingSub(tail, frame[t].head)))
    /\ UNCHANGED <<shared, harness, pushed, quiet>>

\* is_empty, lines 90-91: let tail = self.tail.load(Relaxed); head >= tail
IsEmptyLoadTail(t) ==
    /\ frame[t].pc = "load_tail" /\ frame[t].op = "is_empty"
    /\ Return(t, Bool(IsEmptyCheck(frame[t].head, tail)))
    /\ UNCHANGED <<shared, harness, pushed, quiet>>

\* is_full, lines 96-97: let tail = self.tail.load(Relaxed); tail - head >= self.capacity
IsFullLoadTail(t) ==
    /\ frame[t].pc = "load_tail" /\ frame[t].op = "is_full"
    /\ \E overflow_checks \in BOOLEAN :
          IF frame[t].head > tail /\ overflow_checks
          THEN Panic(t)
          ELSE Return(t, Bool(IsFullCheck(tail, frame[t].head)))
    /\ UNCHANGED <<shared, harness, pushed, quiet>>

\* One step of a push_back or pop_front call in progress.
PushPopStep(t) ==
    \/ PushLoadTail(t) \/ PushLoadHead(t) \/ PushCas(t) \/ PushWrite(t)
    \/ PopLoadHead(t) \/ PopLoadTail(t) \/ PopCas(t) \/ PopTake(t) \/ PopClear(t)

\* One step of a len, is_empty or is_full call in progress.
ObserverStep(t) ==
    \/ LenLoadHead(t) \/ LenLoadTail(t)
    \/ IsEmptyLoadHead(t) \/ IsEmptyLoadTail(t)
    \/ IsFullLoadHead(t) \/ IsFullLoadTail(t)

----------------------------------------------------------------------------
\* Callers: any thread calls any method, any number of times.  Each push_back
\* call is given a value no other call was given.
CallPush(t, budget) ==
    /\ Idle(t)
    /\ issued < budget
    /\ issued' = issued + 1
    /\ Call(t, "push_back", issued + 1)
    /\ UNCHANGED received

CallPushBack(t) == CallPush(t, MaxPush)
FullCallPushBack(t) == CallPush(t, MaxFullPush)
SeqCallPushBack(t) == CallPush(t, MaxSeqPush)

CallOther(t, o) ==
    /\ Idle(t)
    /\ Call(t, o, NoValue)
    /\ UNCHANGED harness

CallPopFront(t) == CallOther(t, "pop_front")
CallLen(t) == CallOther(t, "len")
CallIsEmpty(t) == CallOther(t, "is_empty")
CallIsFull(t) == CallOther(t, "is_full")

\* Concurrent push_back and pop_front calls.
PushPop(t) == CallPushBack(t) \/ CallPopFront(t) \/ PushPopStep(t)
\* Concurrent len, is_empty and is_full calls.
Observe(t) == CallLen(t) \/ CallIsEmpty(t) \/ CallIsFull(t) \/ ObserverStep(t)

Next == \E t \in Threads : PushPop(t)
Spec == Init /\ [][Next]_vars

\* Concurrent calls of all five methods.
FullNext ==
    \E t \in Threads :
        FullCallPushBack(t) \/ CallPopFront(t) \/ PushPopStep(t) \/ Observe(t)
FullSpec == Init /\ [][FullNext]_vars

\* Calls that do not overlap: a thread steps only while every other thread is
\* outside a call.
Alone(t) == \A u \in Threads \ {t} : Idle(u)
SeqNext ==
    \E t \in Threads :
        \/ Alone(t) /\ SeqCallPushBack(t)
        \/ Alone(t) /\ CallPopFront(t)
        \/ Alone(t) /\ CallLen(t)
        \/ Alone(t) /\ CallIsEmpty(t)
        \/ Alone(t) /\ CallIsFull(t)
        \/ Alone(t) /\ PushLoadTail(t)
        \/ Alone(t) /\ PushLoadHead(t)
        \/ Alone(t) /\ PushCas(t)
        \/ Alone(t) /\ PushWrite(t)
        \/ Alone(t) /\ PopLoadHead(t)
        \/ Alone(t) /\ PopLoadTail(t)
        \/ Alone(t) /\ PopCas(t)
        \/ Alone(t) /\ PopTake(t)
        \/ Alone(t) /\ PopClear(t)
        \/ Alone(t) /\ LenLoadHead(t)
        \/ Alone(t) /\ LenLoadTail(t)
        \/ Alone(t) /\ IsEmptyLoadHead(t)
        \/ Alone(t) /\ IsEmptyLoadTail(t)
        \/ Alone(t) /\ IsFullLoadHead(t)
        \/ Alone(t) /\ IsFullLoadTail(t)
SeqSpec == Init /\ [][SeqNext]_vars

\* Concurrent push_back and pop_front calls whose compare-and-swap fails only
\* on a value mismatch (compare_exchange for compare_exchange_weak), each
\* thread running for as long as it has a step to take.
CasFailsOnMismatchOnly(t) ==
    /\ (frame[t].pc = "push_cas" /\ frame'[t].pc = "push_back") =>
          ~CasSucceeds(tail, frame[t].tail, FALSE)
    /\ (frame[t].pc = "pop_cas" /\ frame'[t].pc = "pop_front") =>
          ~CasSucceeds(head, frame[t].head, FALSE)

StrongStep(t) == PushPopStep(t) /\ CasFailsOnMismatchOnly(t)

StrongNext ==
    \E t \in Threads :
        \/ FullCallPushBack(t)
        \/ CallPopFront(t)
        \/ PushLoadTail(t)
        \/ PushLoadHead(t)
        \/ PushCas(t) /\ CasFailsOnMismatchOnly(t)
        \/ PushWrite(t)
        \/ PopLoadHead(t)
        \/ PopLoadTail(t)
        \/ PopCas(t) /\ CasFailsOnMismatchOnly(t)
        \/ PopTake(t)
        \/ PopClear(t)

StrongFairness == \A t \in Threads : WF_vars(StrongStep(t))

StrongSpec == Init /\ [][StrongNext]_vars /\ StrongFairness

----------------------------------------------------------------------------
\* The tests' workload (lines 176-198, 224-243, 283-307): each producer pushes
\* the next value, again while push_back returns Err; each consumer calls
\* pop_front until it has collected PerConsumer values.
ProducerLoop(p) ==
    /\ p \in Producers
    /\ Idle(p)
    /\ IF frame[p].ret.kind = "Err"
       THEN Call(p, "push_back", frame[p].ret.val) /\ UNCHANGED issued
       ELSE /\ issued < TotalItems
            /\ issued' = issued + 1
            /\ Call(p, "push_back", issued + 1)
    /\ UNCHANGED received

\* received.push(value)
ConsumerCollect(c) ==
    /\ c \in Consumers
    /\ frame[c].pc = "returned"
    /\ frame[c].ret.kind = "Some"
    /\ received' = [received EXCEPT ![c] = @ + 1]
    /\ frame' = [frame EXCEPT ![c] = IdleFrame]
    /\ UNCHANGED <<shared, issued, pushed, popRet, okAt, quiet, q>>

\* while received.len() < PerConsumer { .. pop_front() .. }
ConsumerLoop(c) ==
    /\ c \in Consumers
    /\ Idle(c)
    /\ frame[c].ret.kind # "Some"
    /\ received[c] < PerConsumer
    /\ Call(c, "pop_front", NoValue)
    /\ UNCHANGED harness

Worker(t) == ProducerLoop(t) \/ ConsumerCollect(t) \/ ConsumerLoop(t) \/ PushPopStep(t)

LiveInit == (\E c \in 1..MaxCap : with_capacity(c)) /\ InitRest
LiveNext == \E t \in Threads : Worker(t)

\* Every thread keeps running, and a compare_exchange_weak that could succeed
\* again and again does succeed.
LiveFairness ==
    \A t \in Threads :
        /\ WF_vars(Worker(t))
        /\ SF_vars(PushCas(t) /\ tail' # tail)
        /\ SF_vars(PopCas(t) /\ head' # head)

LiveSpec == LiveInit /\ [][LiveNext]_vars /\ LiveFairness

ProducerDone(p) == Idle(p) /\ frame[p].ret.kind # "Err" /\ issued = TotalItems
ConsumerDone(c) == frame[c].pc = "idle" /\ received[c] = PerConsumer

----------------------------------------------------------------------------
\* Properties.

\* The step is the return of thread t's call.
Returns(t) == frame[t].pc # "returned" /\ frame'[t].pc = "returned"
\* The step is a step of thread t's call.
Steps(t) == ~Idle(t) /\ frame'[t] # frame[t]
\* No call is in progress.
Quiescent == \A t \in Threads : Idle(t)
\* The logical indices pop_front calls have won, and push_back calls have won.
PopIndices == 1..Len(popRet)
PushIndices == 1..Len(pushed)
\* How many pop_front calls returned Some(v).
TimesPopped(v) == Cardinality({i \in PopIndices : popRet[i] = Some(v)})
\* How many of the logical indices head..tail-1 have v in their slot.
TimesHeld(v) == Cardinality({i \in head..(tail - 1) : buffer[SlotOf(i)] = Some(v)})
\* push_back(a) returned Ok before push_back(b) was called: values are
\* numbered in the order of the calls.
OkBefore(a, b) == okAt[a] > 0 /\ okAt[a] < b
IndexOf(v) == CHOOSE i \in PushIndices : pushed[i] = v

\* C1: the pop_front that wins head index i returns Some of the value whose
\* push_back won tail index i: never None, never another index's value.
C1_PopReturnsItsIndex ==
    \A i \in PopIndices : popRet[i] \in {Pending, Some(pushed[i])}

\* C2: the values pop_front returned are pairwise distinct and were pushed;
\* and once every call has returned, the values returned together with those
\* held at head..tail-1 are exactly the values whose push_back returned Ok.
C2_NoLossNoDuplication ==
    /\ \A v \in Values : TimesPopped(v) <= 1
    /\ \A i \in PopIndices :
          popRet[i].kind = "Some" => \E j \in PushIndices : pushed[j] = popRet[i].val
    /\ Quiescent =>
          \A v \in Values :
              TimesPopped(v) + TimesHeld(v) = (IF okAt[v] > 0 THEN 1 ELSE 0)

\* C3: head <= tail and tail - head <= capacity in every reachable state.
C3_IndexBounds == head <= tail /\ tail - head <= capacity

\* C3 witness: the buffer is full after head has moved, with a push_back and
\* a pop_front both in progress.
C3_Witness ==
    /\ capacity > 0 /\ head > 0 /\ tail - head = capacity
    /\ \E t, u \in Threads : InPush(t) /\ InPop(u)

\* C4: when calls do not overlap, every call returns what the abstract bounded
\* FIFO of the same capacity returns for it.
C4_SequentialFifo ==
    [][\A t \in Threads :
          Returns(t) => frame'[t].ret = AbsRet(q, frame[t].op, frame[t].value)]_vars

\* C4 witness: capacity 2, every slot used three times, and the last value
\* pushed has been popped.
C4_Witness ==
    /\ capacity = 2 /\ head >= 6 /\ Len(q) = 0
    /\ \E t \in Threads : frame[t].ret = Some(6)

\* C5: a push_back call that returns the full signal returns Err of the value
\* it was given and has won no index, and no step of a push_back call that
\* holds no index changes head, tail or a slot.
C5_FullChangesNothing ==
    [][\A t \in Threads :
          /\ (Returns(t) /\ frame'[t].ret.kind = "Err") =>
                /\ frame'[t].ret.val = frame[t].value
                /\ frame[t].claimed = NoIndex
          /\ (/\ InPush(t) /\ Steps(t)
              /\ frame[t].claimed = NoIndex /\ frame'[t].claimed = NoIndex) =>
                UNCHANGED <<capacity, buffer, head, tail>>]_vars

\* C5 witness: a push_back has returned Err on a full buffer whose slots have
\* been used before.
C5_Witness ==
    /\ capacity > 0 /\ head > 0 /\ tail - head = capacity
    /\ \E t \in Threads : frame[t].pc = "returned" /\ frame[t].ret.kind = "Err"

\* C6: pop_front returns None only from its emptiness check, with the head it
\* loaded >= the tail it loads, and never after winning the head CAS.
C6_NoneOnlyFromEmptyCheck ==
    [][\A t \in Threads :
          (Returns(t) /\ frame[t].op = "pop_front" /\ frame'[t].ret = None) =>
              /\ frame[t].pc = "pop_tail"
              /\ frame[t].head >= tail
              /\ frame[t].claimed = NoIndex]_vars

\* C7: a pop_front call that began with head = tail and no push_back in
\* progress, and during which no push_back began, goes from its two loads
\* straight to returning None, and its steps leave head, tail and every slot
\* unchanged.
C7_IdempotentEmptiness ==
    [][\A t \in Threads :
          (quiet[t] /\ InPop(t) /\ Steps(t)) =>
              /\ UNCHANGED <<capacity, buffer, head, tail>>
              /\ frame'[t].pc \in {"pop_tail", "returned"}
              /\ Returns(t) => frame'[t].ret = None]_vars

\* C7 witness: on a buffer that was used and emptied, one such call has
\* returned None while another is in progress.
C7_Witness ==
    /\ head = tail /\ head > 0
    /\ \E t, u \in Threads :
          /\ quiet[t] /\ frame[t].pc = "returned" /\ frame[t].ret = None
          /\ quiet[u] /\ InPop(u)

\* What each method returns on a buffer of capacity 0.
ZeroCapacityRet(o, v) ==
    CASE o = "push_back" -> [kind |-> "Err", val |-> v]
      [] o = "pop_front" -> None
      [] o = "len" -> Usize(0)
      [] o = "is_empty" -> Bool(TRUE)
      [] o = "is_full" -> Bool(TRUE)

\* head and tail are 0, and no call is at a CAS, at a slot or has panicked.
ZeroCapacityState ==
    /\ head = 0 /\ tail = 0
    /\ \A t \in Threads :
          frame[t].pc \notin {"push_cas", "push_write", "pop_cas", "pop_take",
                              "pop_clear", "panicked"}

\* C8: with capacity 0, under any interleaving of calls, push_back returns
\* Err(value), pop_front None, is_empty and is_full true, len 0; head and tail
\* stay 0 and no call reaches `index % capacity`.
C8_ZeroCapacity ==
    [][capacity = 0 =>
          /\ ZeroCapacityState'
          /\ \A t \in Threads :
                Returns(t) => frame'[t].ret = ZeroCapacityRet(frame[t].op, frame[t].value)]_vars

\* C8 witness: with capacity 0, a push_back has returned Err while another
\* thread's is_full has returned true.
C8_Witness ==
    /\ capacity = 0
    /\ \E t, u \in Threads :
          /\ frame[t].op = "push_back" /\ frame[t].ret.kind = "Err"
          /\ frame[u].op = "is_full" /\ frame[u].ret = Bool(TRUE)

\* C9: if push_back(a) returned Ok before push_back(b) was called, a has the
\* smaller logical index, and a pop_front that returned b won its head CAS
\* after the pop_front that returns a won its own.
C9_CommittedFifo ==
    \A a, b \in 1..issued :
        OkBefore(a, b) =>
            /\ (\E j \in PushIndices : pushed[j] = b) => IndexOf(a) < IndexOf(b)
            /\ \A m \in PopIndices :
                  popRet[m] = Some(b) =>
                      \E k \in 1..(m - 1) : popRet[k] \in {Some(a), Pending}

\* C10: under fairness the workload ends: every value is collected, every
\* thread is done and head = tail.
C10_EventualDelivery ==
    <>(/\ \A p \in Producers : ProducerDone(p)
       /\ \A c \in Consumers : ConsumerDone(c)
       /\ \A v \in 1..TotalItems : TimesPopped(v) = 1
       /\ head = tail)

\* The step is a compare-and-swap of thread t's call that failed.
PushCasFails(t) == frame[t].pc = "push_cas" /\ frame'[t].pc = "push_back"
PopCasFails(t) == frame[t].pc = "pop_cas" /\ frame'[t].pc = "pop_front"
\* The step is the return of a call of a thread other than t.
OtherReturns(t) == \E u \in Threads \ {t} : Returns(u)

\* C11: with a CAS that fails only on a mismatch, every tail (head) CAS that
\* has succeeded is counted in pushed (popRet); when the tail CAS of a
\* push_back fails, more tail CAS have succeeded than when the call loaded
\* tail, none of them its own, and likewise for pop_front and head; and a call
\* returns, unless calls of other threads return again and again.
C11_LockFreedom ==
    /\ [][\A t \in Threads :
             /\ tail = Len(pushed) /\ head = Len(popRet)
             /\ PushCasFails(t) =>
                   Len(pushed) > frame[t].tail /\ frame[t].claimed = NoIndex
             /\ PopCasFails(t) =>
                   Len(popRet) > frame[t].head /\ frame[t].claimed = NoIndex]_vars
    /\ \A t \in Threads :
          \/ []<>Idle(t)
          \/ []<><<OtherReturns(t)>>_vars

\* The push_back that won tail index i has not yet written its slot.
WritePending(i) ==
    \E u \in Threads : frame[u].pc = "push_write" /\ frame[u].claimed = i
\* The step is the slot read of the take() of thread t's pop_front.
Takes(t) == frame[t].pc = "pop_take" /\ frame'[t].pc = "pop_clear"

\* C12: when the pop_front that won head index i reads its slot, the
\* push_back that won tail index i has completed its slot write.
C12_WriteBeforeRead ==
    [][\A t \in Threads : Takes(t) => ~WritePending(frame[t].claimed)]_vars

\* Thread t has won an index and has not finished its access to the slot: a
\* push_back until its write, a pop_front until its take() is over.
HoldsSlot(t) == frame[t].pc \in {"push_write", "pop_take", "pop_clear"}
HeldSlot(t) == SlotOf(frame[t].claimed)

\* C13: no two calls hold a pending access to the same physical slot.
C13_SlotExclusivity ==
    \A t, u \in Threads :
        (t # u /\ HoldsSlot(t) /\ HoldsSlot(u)) => HeldSlot(t) # HeldSlot(u)

\* The logical indices in the buffer, the slots they map to, and the slots
\* that hold a value.
LiveIndices == head..(tail - 1)
LiveSlots == {SlotOf(i) : i \in LiveIndices}
OccupiedSlots == {s \in DOMAIN buffer : buffer[s] # None}

\* C14: in every reachable state the slot of every logical index i with
\* head <= i < tail holds Some of the value pushed at index i, every other
\* slot holds None, and the number of occupied slots is tail - head.
C14_SlotOccupancy ==
    /\ \A i \in LiveIndices : buffer[SlotOf(i)] = Some(pushed[i + 1])
    /\ \A s \in DOMAIN buffer \ LiveSlots : buffer[s] = None
    /\ Cardinality(OccupiedSlots) = tail - head

\* The step is the CAS of thread t's push_back (pop_front) succeeding.
WinsTail(t) == frame[t].pc = "push_cas" /\ frame'[t].pc = "push_write"
WinsHead(t) == frame[t].pc = "pop_cas" /\ frame'[t].pc = "pop_take"

\* C15: the k-th successful tail CAS advances tail from k-1 to k and the k-th
\* successful head CAS advances head from k-1 to k, so no index is won by two
\* push_back calls or by two pop_front calls; and calls in progress of the
\* same method hold different indices.
C15_UniqueClaim ==
    [][/\ \A t \in Threads :
             /\ WinsTail(t) =>
                   /\ frame'[t].claimed = Len(pushed)
                   /\ Len(pushed') = Len(pushed) + 1
                   /\ tail = frame'[t].claimed /\ tail' = frame'[t].claimed + 1
             /\ WinsHead(t) =>
                   /\ frame'[t].claimed = Len(popRet)
                   /\ Len(popRet') = Len(popRet) + 1
                   /\ head = frame'[t].claimed /\ head' = frame'[t].claimed + 1
       /\ \A t, u \in Threads :
             (/\ t # u /\ frame'[t].op = frame'[u].op
              /\ frame'[t].claimed # NoIndex /\ frame'[u].claimed # NoIndex) =>
                 frame'[t].claimed # frame'[u].claimed]_vars

\* C15 witness: after a pop_front has won an index, two push_back calls that
\* raced for the tail hold indices 1 and 2.
C15_Witness ==
    /\ Len(popRet) >= 1
    /\ \E t, u \in Threads :
          /\ frame[t].pc = "push_write" /\ frame[t].claimed = 1
          /\ frame[u].pc = "push_write" /\ frame[u].claimed = 2

\* The step is thread t's push_back loading head and evaluating its full check.
PushChecksFull(t) == frame[t].pc = "push_head" /\ Steps(t)

\* C16: when push_back evaluates `tail - head`, the head it has just loaded is
\* <= the tail it loaded before; it does not panic, and it returns Err only
\* if tail - head >= capacity for the values it read.
C16_PushNoUnderflow ==
    [][\A t \in Threads :
          PushChecksFull(t) =>
              /\ head <= frame[t].tail
              /\ frame'[t].pc # "panicked"
              /\ frame'[t].ret.kind = "Err" => frame[t].tail - head >= capacity]_vars

\* C17: every value len() returns is between 0 and capacity.
C17_LenWithinCapacity ==
    [][\A t \in Threads :
          (Returns(t) /\ frame[t].op = "len") =>
              /\ frame'[t].ret.kind = "usize"
              /\ frame'[t].ret.val \in 0..capacity]_vars

\* The step is thread t's is_full loading tail and evaluating `tail - head`.
IsFullSubtracts(t) ==
    frame[t].pc = "load_tail" /\ frame[t].op = "is_full" /\ Steps(t)

\* C18: when is_full evaluates `tail - head`, the head it loaded first is <=
\* the tail it loads second; it does not panic, and it returns whether the
\* true difference is >= capacity.
C18_IsFullNoUnderflow ==
    [][\A t \in Threads :
          IsFullSubtracts(t) =>
              /\ frame[t].head <= tail
              /\ frame'[t].pc = "returned"
              /\ frame'[t].ret = Bool(tail - frame[t].head >= capacity)]_vars

\* C18 witness: an is_full call holds a head that pop_front has since moved
\* past, while another is_full call has returned.
C18_Witness ==
    \E t, u \in Threads :
        /\ frame[t].op = "is_full" /\ frame[t].pc = "load_tail" /\ frame[t].head < head
        /\ frame[u].op = "is_full" /\ frame[u].pc = "returned" /\ frame[u].ret.kind = "bool"

\* The methods that only read.
Observers == {"len", "is_empty", "is_full"}
\* The step is a step of thread t calling, running or returning from one of them.
Observes(t) == frame'[t] # frame[t] /\ frame'[t].op \in Observers

\* C19: head and tail start at 0; every step leaves both unchanged or adds 1
\* to exactly one of them, tail only in the successful CAS of a push_back and
\* head only in the successful CAS of a pop_front; capacity never changes;
\* and no step of len, is_empty or is_full changes capacity, head, tail or a
\* slot.
C19_MonotoneCounters ==
    /\ head = 0 /\ tail = 0
    /\ [][/\ capacity' = capacity
          /\ <<head', tail'>> \in {<<head, tail>>, <<head + 1, tail>>, <<head, tail + 1>>}
          /\ tail' # tail =>
                \E t \in Threads : frame[t].op = "push_back" /\ WinsTail(t)
          /\ head' # head =>
                \E t \in Threads : frame[t].op = "pop_front" /\ WinsHead(t)
          /\ \A t \in Threads :
                Observes(t) => UNCHANGED <<capacity, buffer, head, tail>>]_vars

\* C19 witness: both counters have advanced, tail twice, and a len call that
\* ran meanwhile has returned.
C19_Witness ==
    /\ head >= 1 /\ tail >= 2
    /\ \E t \in Threads :
          frame[t].op = "len" /\ frame[t].pc = "returned" /\ frame[t].ret.kind = "usize"

====
